---- MODULE Spec2Model ----
(***************************************************************************)
(* openMindMap: the interaction / editing core of the mind-map view.       *)
(*                                                                         *)
(* The tree is kept as the pre-order list of its nodes; a node record      *)
(* holds level, text and the selected flag.  A node reference is the       *)
(* position of the node in that list.  References to objects that are no   *)
(* longer part of the live tree (deleted subtrees, the objects of a tree   *)
(* replaced by undo/redo) are Dead (a non-root object) or DeadRoot.        *)
(***************************************************************************)
EXTENDS Integers, Sequences, FiniteSets, TLC

\* ------------------------------------------------------------------ bounds
MaxNodes == 4
MaxOps == 4
MaxHistoryOps == 7
MaxPending == 1

\* ------------------------------------------------------- program constants
MAX_STACK_SIZE == 5

NewNodeText == "New Node"
RootText == "r"
InitText == "a"
Suggestions == {"s"}
PasteText == "p"
\* what the user may leave in the edit element: a new text, nothing, blanks,
\* a text longer than the maximum length, a text with a forbidden character
LongText == "long"
ForbiddenText == "forbidden"
TypedTexts == {"b", "", " ", LongText, ForbiddenText}

NoRef == 0
Dead == -1
DeadRoot == -2

\* ------------------------------------------------------------ tree helpers
Node(level, text, selected) == [level |-> level, text |-> text, selected |-> selected]

InitTree == << Node(0, RootText, FALSE), Node(1, InitText, FALSE) >>

IsLive(t, r) == r \in 1..Len(t)

IsRootRef(r) == r = 1 \/ r = DeadRoot

\* last position of the subtree rooted at position i
SubtreeEnd(t, i) ==
    LET later == { j \in (i+1)..Len(t) : t[j].level <= t[i].level }
    IN  IF later = {} THEN Len(t)
        ELSE (CHOOSE j \in later : \A k \in later : j <= k) - 1

InsertAt(t, p, n) == SubSeq(t, 1, p - 1) \o << n >> \o SubSeq(t, p, Len(t))

RemoveRange(t, i, j) == SubSeq(t, 1, i - 1) \o SubSeq(t, j + 1, Len(t))

\* structure and text of a tree, without the transient selected flags
Content(t) == [i \in 1..Len(t) |-> << t[i].level, t[i].text >>]

\* structure alone
Structure(t) == [i \in 1..Len(t) |-> t[i].level]

SelectedSet(t) == { i \in 1..Len(t) : t[i].selected }

SetSelected(t, r, v) == IF IsLive(t, r) THEN [t EXCEPT ![r].selected = v] ELSE t

SetText(t, r, x) == IF IsLive(t, r) THEN [t EXCEPT ![r].text = x] ELSE t

\* reference bookkeeping when the list changes
RefAfterInsert(r, p) == IF r >= p THEN r + 1 ELSE r

RefAfterDelete(r, i, j) ==
    IF r < i THEN r
    ELSE IF r <= j THEN Dead
    ELSE r - (j - i + 1)

RefAfterRestore(r) ==
    IF r = 1 THEN DeadRoot
    ELSE IF r > 1 THEN Dead
    ELSE r

\* editElement: "attached" while the element the session edits is part of the
\* rendered scene, "detached" once a render pass has removed it
NoEdit == [isEditing |-> FALSE, currentNode |-> NoRef, originalText |-> "", editElement |-> "none"]

VARIABLES
    tree,           \* MindMapData.rootNode, as a pre-order list
    allNodes,       \* positions of the live nodes that MindMapData.allNodes holds
    isMobile,       \* config.isMobile
    treeId,         \* identity of the node objects that make up the live tree
    undoStack,      \* UndoManager.undoStack
    redoStack,      \* UndoManager.redoStack
    undoIds,        \* identity of the node objects of each entry of undoStack
    redoIds,        \* identity of the node objects of each entry of redoStack
    mouseSelected,  \* MouseInteraction.selectedNode
    imSelected,     \* InteractionManager.state.selectedNode
    selectedNode,   \* RendererCoordinator.selectedNode
    coSynced,       \* selectedNode is a node of the rendered hierarchy
    editingState,   \* the EditingState shared by coordinator, editor and text renderer
    editText,       \* textContent of editingState.editElement
    canvasInteractionEnabled,
    imIsEditing,    \* InteractionManager.state.editingState.isEditing
    clickNode,      \* MouseInteraction.clickNode while the double-click window is open
    clickTimeout,   \* node whose click armed MouseInteraction.clickTimeout, NoRef when not armed
    toolbarNode,    \* node the visible mobile toolbar is attached to
    aiNode,         \* parent node of the open suggestions panel
    selectedSuggestions,
    scene,          \* live nodes that have an element in the rendered scene
    renderPending,  \* a render has been requested and not yet run
    isRendering,    \* RendererCoordinator.isRendering
    pendingRenderRequest,
    updateTimer,    \* MindMapView.updateTimer is armed
    file,           \* what the last saveToMarkdownFile call wrote
    closed,         \* MindMapView.onClose has run
    editNewPending, \* the editNewNode timer is armed
    blurPending,    \* node whose edit element has a blur-save timer armed
    pendingClip,    \* clipboard operations awaiting the clipboard
    notice,         \* notification shown by the last event
    lastOp,         \* the last event
    nOps,           \* number of user events so far
    budget,         \* number of user events the run is followed for
    preOps,         \* history: the tree before each change of the tree not yet undone
    hist,           \* history: the current run of consecutive undo and redo commands
    doc,            \* a document handed to parseMarkdownContent, as its lines
    parses,         \* the trees parsed so far from doc and from the markdown generated
    markdowns,      \* the markdown generated so far from the parsed trees
    links,          \* node objects with their parent and children fields; the root is the first
    linkSnapshot,   \* node objects of the snapshot last taken of links
    hierarchy,      \* the d3 hierarchy handed to the layout: parent and children of each node
    dims,           \* what the dimensions callback returns for each node
    placed          \* x (doubled) and y of each node after the layout pass

viewVars == << tree, treeId, allNodes, isMobile, undoStack, redoStack, undoIds, redoIds, mouseSelected, imSelected,
           selectedNode, coSynced, editingState, editText, canvasInteractionEnabled, imIsEditing,
           clickNode, clickTimeout, toolbarNode, aiNode, selectedSuggestions, scene, renderPending,
           isRendering, pendingRenderRequest, updateTimer, file, closed,
           editNewPending, blurPending, pendingClip, notice, lastOp, nOps, budget, preOps, hist >>

\* the inputs and results of the document functions
layoutVars == << hierarchy, dims, placed >>

docVars == << doc, parses, markdowns, links, linkSnapshot, layoutVars >>

vars == << viewVars, docVars >>

\* the program state as one record, on which the methods below operate
Cur == [ tree |-> tree, treeId |-> treeId, allNodes |-> allNodes, isMobile |-> isMobile,
         undoStack |-> undoStack, redoStack |-> redoStack,
         undoIds |-> undoIds, redoIds |-> redoIds,
         mouseSelected |-> mouseSelected, imSelected |-> imSelected,
         selectedNode |-> selectedNode, coSynced |-> coSynced,
         editingState |-> editingState, editText |-> editText,
         canvasInteractionEnabled |-> canvasInteractionEnabled,
         imIsEditing |-> imIsEditing, clickNode |-> clickNode, clickTimeout |-> clickTimeout,
         toolbarNode |-> toolbarNode, aiNode |-> aiNode,
         selectedSuggestions |-> selectedSuggestions, scene |-> scene,
         renderPending |-> renderPending, isRendering |-> isRendering,
         pendingRenderRequest |-> pendingRenderRequest, updateTimer |-> updateTimer,
         file |-> file, closed |-> closed, editNewPending |-> editNewPending,
         blurPending |-> blurPending, pendingClip |-> pendingClip,
         notice |-> "none", preOps |-> preOps ]

Front(q) == SubSeq(q, 1, Len(q) - 1)

LastN(q, n) == IF Len(q) > n THEN SubSeq(q, Len(q) - n + 1, Len(q)) ELSE q

NoHist == [trail |-> << >>, depth |-> 0]

\* S1 is S0 after one operation on the tree: when the operation changed the
\* tree, the tree it started from joins the MAX_STACK_SIZE most recent ones
Recorded(S0, S1) ==
    IF Content(S1.tree) # Content(S0.tree)
    THEN [S1 EXCEPT !.preOps = LastN(Append(@, Content(S0.tree)), MAX_STACK_SIZE)]
    ELSE S1

\* The history of the run after a step that takes the program to state S.
\*   trail:  the tree content before each undo of the current run of
\*           consecutive undo/redo commands that no redo has matched yet
\*   depth:  the longest trail of that run
HistAfter(S, op, isCommand) ==
    LET changed == Content(S.tree) # Content(tree)
    IN  IF op.kind = "undo"
        THEN IF undoStack = << >> THEN hist
             ELSE [trail |-> Append(hist.trail, Content(tree)),
                   depth |-> IF Len(hist.trail) + 1 > hist.depth THEN Len(hist.trail) + 1 ELSE hist.depth]
        ELSE IF op.kind = "redo"
        THEN IF redoStack = << >> THEN hist
             ELSE [trail |-> Front(hist.trail), depth |-> hist.depth]
        ELSE [trail |-> IF isCommand \/ changed THEN << >> ELSE hist.trail,
              depth |-> IF isCommand \/ changed THEN 0 ELSE hist.depth]

\* a stack whose entries made of the live tree's own node objects show the
\* live tree as it is now
Aliased(S, stack, ids) ==
    [k \in DOMAIN stack |-> IF ids[k] = S.treeId THEN S.tree ELSE stack[k]]

Commit(S, op) ==
    /\ hist' = HistAfter(S, op, nOps' # nOps)
    /\ preOps' = S.preOps
    /\ tree' = S.tree
    /\ treeId' = S.treeId
    /\ allNodes' = S.allNodes
    /\ isMobile' = S.isMobile
    /\ undoStack' = Aliased(S, S.undoStack, S.undoIds)
    /\ redoStack' = Aliased(S, S.redoStack, S.redoIds)
    /\ undoIds' = S.undoIds
    /\ redoIds' = S.redoIds
    /\ mouseSelected' = S.mouseSelected
    /\ imSelected' = S.imSelected
    /\ selectedNode' = S.selectedNode
    /\ coSynced' = S.coSynced
    /\ editingState' = S.editingState
    /\ editText' = S.editText
    /\ canvasInteractionEnabled' = S.canvasInteractionEnabled
    /\ imIsEditing' = S.imIsEditing
    /\ clickNode' = S.clickNode
    /\ clickTimeout' = S.clickTimeout
    /\ toolbarNode' = S.toolbarNode
    /\ aiNode' = S.aiNode
    /\ selectedSuggestions' = S.selectedSuggestions
    /\ scene' = S.scene
    /\ renderPending' = S.renderPending
    /\ isRendering' = S.isRendering
    /\ pendingRenderRequest' = S.pendingRenderRequest
    /\ updateTimer' = S.updateTimer
    /\ file' = S.file
    /\ closed' = S.closed
    /\ editNewPending' = S.editNewPending
    /\ blurPending' = S.blurPending
    /\ pendingClip' = S.pendingClip
    /\ notice' = S.notice
    /\ lastOp' = op
    /\ UNCHANGED docVars

\* the values a node reference takes
Refs == DeadRoot..(MaxNodes + 1)

\* every reference of the program state mapped through f
RemapRefs(S, f) ==
    [S EXCEPT !.mouseSelected = f[@],
              !.imSelected = f[@],
              !.selectedNode = f[@],
              !.editingState = [@ EXCEPT !.currentNode = f[@]],
              !.clickNode = f[@],
              !.clickTimeout = f[@],
              !.toolbarNode = f[@],
              !.aiNode = f[@],
              !.blurPending = f[@],
              !.pendingClip = [k \in DOMAIN @ |-> [@[k] EXCEPT !.node = f[@]]],
              !.allNodes = { f[r] : r \in @ } \cap 1..MaxNodes,
              !.scene = { f[r] : r \in @ } \cap 1..MaxNodes]


\* ------------------------------------------------------------- UndoManager
\* identities of node objects; a new object is none of those in use now or
\* when the running handler started
ObjectIds == 0..(4 * MAX_STACK_SIZE + 2)

UsedIds(S) ==
    {S.treeId} \cup { S.undoIds[k] : k \in DOMAIN S.undoIds }
               \cup { S.redoIds[k] : k \in DOMAIN S.redoIds }

FreshId(S) ==
    LET free == ObjectIds \ (UsedIds(S) \cup UsedIds(Cur))
    IN  CHOOSE n \in free : \A m \in free : n <= m

\* a clone that hands out the node objects it was given
DeepCloneNode_SharesNodes(S) == [id |-> S.treeId, nodes |-> S.tree]

\* deepCloneNode over the whole tree: new node objects with the same fields
DeepCloneNode(S) ==
    [id |-> FreshId(S),
     nodes |-> [i \in 1..Len(S.tree) |-> Node(S.tree[i].level, S.tree[i].text, S.tree[i].selected)]]

SaveSnapshot(S) ==
    LET snapshot == DeepCloneNode(S)
        pushed == Append(S.undoStack, snapshot.nodes)
        pushedIds == Append(S.undoIds, snapshot.id)
        over == Len(pushed) > MAX_STACK_SIZE
    IN  [S EXCEPT !.undoStack = IF over THEN Tail(pushed) ELSE pushed,
                  !.undoIds = IF over THEN Tail(pushedIds) ELSE pushedIds,
                  !.redoStack = << >>,
                  !.redoIds = << >>]

\* an undo that puts the snapshot it hands out onto the redo stack
UndoManagerUndo_PushesPopped(S) ==
    [S |-> [S EXCEPT !.redoStack = Append(@, S.undoStack[Len(S.undoStack)]),
                     !.redoIds = Append(@, S.undoIds[Len(S.undoIds)]),
                     !.undoStack = SubSeq(@, 1, Len(@) - 1),
                     !.undoIds = SubSeq(@, 1, Len(@) - 1)],
     data |-> S.undoStack[Len(S.undoStack)],
     id |-> S.undoIds[Len(S.undoIds)]]

\* UndoManager.undo: a clone of the current state goes onto the redo stack,
\* the top of the undo stack is popped and returned
UndoManagerUndo(S) ==
    LET snapshot == DeepCloneNode(S)
    IN  [S |-> [S EXCEPT !.redoStack = Append(@, snapshot.nodes),
                         !.redoIds = Append(@, snapshot.id),
                         !.undoStack = SubSeq(@, 1, Len(@) - 1),
                         !.undoIds = SubSeq(@, 1, Len(@) - 1)],
         data |-> S.undoStack[Len(S.undoStack)],
         id |-> S.undoIds[Len(S.undoIds)]]

\* a redo that leaves the snapshot it hands out on the redo stack
UndoManagerRedo_KeepsRedo(S) ==
    LET snapshot == DeepCloneNode(S)
    IN  [S |-> [S EXCEPT !.undoStack = Append(@, snapshot.nodes),
                         !.undoIds = Append(@, snapshot.id)],
         data |-> S.redoStack[Len(S.redoStack)],
         id |-> S.redoIds[Len(S.redoIds)]]

\* UndoManager.redo: a clone of the current state goes onto the undo stack,
\* whatever its length, the top of the redo stack is popped and returned
UndoManagerRedo(S) ==
    LET snapshot == DeepCloneNode(S)
    IN  [S |-> [S EXCEPT !.undoStack = Append(@, snapshot.nodes),
                         !.undoIds = Append(@, snapshot.id),
                         !.redoStack = SubSeq(@, 1, Len(@) - 1),
                         !.redoIds = SubSeq(@, 1, Len(@) - 1)],
         data |-> S.redoStack[Len(S.redoStack)],
         id |-> S.redoIds[Len(S.redoIds)]]

\* -------------------------------------------------------------- NodeEditor
\* String.trim of the texts the edit element may hold
Trim(text) == IF text = " " THEN "" ELSE text

ValidateText(text) ==
    /\ Trim(text) # ""
    /\ text # LongText
    /\ text # ForbiddenText

SetCanvasInteraction(S, enabled) ==
    [S EXCEPT !.canvasInteractionEnabled = enabled, !.imIsEditing = ~enabled]

\* an exit that leaves the canvas interaction as the session set it
ExitEditMode_KeepsCanvasOff(S) ==
    IF ~S.editingState.isEditing THEN S
    ELSE [S EXCEPT !.editingState = NoEdit, !.editText = ""]

ExitEditMode(S) ==
    IF ~S.editingState.isEditing THEN S
    ELSE [SetCanvasInteraction(S, TRUE) EXCEPT !.editingState = NoEdit, !.editText = ""]

ShowValidationError(S) == [ExitEditMode(S) EXCEPT !.notice = "validationError"]

\* MindMapService.saveToMarkdownFile: the document of the tree is written
SaveToMarkdownFile(S) == [S EXCEPT !.file = Content(S.tree)]

RefreshMindMapLayout(S) == [S EXCEPT !.renderPending = TRUE]

\* MindMapView.handleNodeTextChanged: writes the text and arms the debounce
\* timer whose callback re-renders and writes the file
HandleNodeTextChanged(S, node, newText) ==
    [S EXCEPT !.tree = SetText(@, node, newText), !.updateTimer = TRUE]

\* the callback of the debounce timer
UpdateTimerCallback(S) ==
    [SaveToMarkdownFile(RefreshMindMapLayout(S)) EXCEPT !.updateTimer = FALSE]

OnBeforeTextChange(S) == SaveSnapshot(S)

SaveText(S, typed) ==
    LET newText == Trim(typed)
    IN  IF ~S.editingState.isEditing \/ S.editingState.currentNode = NoRef THEN S
        ELSE IF ~ValidateText(newText) THEN ShowValidationError(S)
        ELSE IF newText = S.editingState.originalText THEN ExitEditMode(S)
        ELSE LET cur == S.editingState.currentNode
                 S1 == OnBeforeTextChange(S)
                 S2 == Recorded(S1, [S1 EXCEPT !.tree = SetText(@, cur, newText)])
                 S3 == HandleNodeTextChanged(S2, cur, newText)
             IN  ExitEditMode(S3)

CancelEdit(S) ==
    IF ~S.editingState.isEditing THEN S
    ELSE ExitEditMode([S EXCEPT !.editText = IF S.editingState.originalText # ""
                                             THEN S.editingState.originalText ELSE @])

\* editingState.currentNode === node: the hierarchy node of the session and
\* the hierarchy node of an element of the scene are the same object only
\* while no render pass has rebuilt the hierarchy since the session started
IsEditedNode(S, node) ==
    S.editingState.currentNode = node /\ S.editingState.editElement = "attached"

\* an editor that starts a session on whatever node it is given
EnableEditing_AllowsRoot(S, node, domOk) ==
    LET text == IF IsLive(S.tree, node) THEN S.tree[node].text ELSE ""
    IN  [SetCanvasInteraction(S, FALSE) EXCEPT
            !.editingState = [isEditing |-> TRUE, currentNode |-> node, originalText |-> text,
                              editElement |-> "attached"],
            !.editText = text]

\* domOk: preparing the edit element raised no error
EnableEditing(S, node, domOk) ==
    IF IsRootRef(node) THEN [S EXCEPT !.notice = "cannotEditRoot"]
    ELSE LET S1 == IF S.editingState.isEditing /\ ~IsEditedNode(S, node)
                   THEN ExitEditMode(S) ELSE S
             S2 == SetCanvasInteraction(S1, FALSE)
             text == IF IsLive(S.tree, node) THEN S.tree[node].text ELSE ""
             S3 == [S2 EXCEPT !.editingState =
                                  [isEditing |-> TRUE, currentNode |-> node, originalText |-> text,
                                   editElement |-> "attached"],
                              !.editText = IF S.editingState.isEditing /\ IsEditedNode(S, node)
                                           THEN @ ELSE text]
         IN  IF domOk THEN S3 ELSE ShowValidationError(S3)

\* ---------------------------------------------------------- MindMapService
\* a new last child of node, which may itself be outside the live tree
AppendChild(S, node, text) ==
    IF IsLive(S.tree, node)
    THEN LET p == SubtreeEnd(S.tree, node) + 1
             S1 == RemapRefs(S, [r \in Refs |-> RefAfterInsert(r, p)])
         IN  [S |-> [S1 EXCEPT !.tree = InsertAt(S.tree, p, Node(S.tree[node].level + 1, text, FALSE))],
              new |-> p]
    ELSE [S |-> S, new |-> Dead]

CreateChildNode(S, node, text) ==
    LET r == AppendChild(S, node, text)
    IN  [S |-> Recorded(S, r.S), new |-> r.new]

CreateSiblingNode(S, node, text) ==
    IF IsRootRef(node) THEN [S |-> S, new |-> NoRef]
    ELSE IF IsLive(S.tree, node)
    THEN LET p == SubtreeEnd(S.tree, node) + 1
             S1 == RemapRefs(S, [r \in Refs |-> RefAfterInsert(r, p)])
         IN  [S |-> Recorded(S, [S1 EXCEPT !.tree = InsertAt(S.tree, p, Node(S.tree[node].level, text, FALSE))]),
              new |-> p]
    ELSE [S |-> S, new |-> Dead]

DeleteNode(S, node, detachedOk) ==
    IF IsRootRef(node) THEN [S |-> [S EXCEPT !.notice = "cannotDeleteRoot"], ok |-> FALSE]
    ELSE IF IsLive(S.tree, node)
    THEN LET j == SubtreeEnd(S.tree, node)
             S1 == RemapRefs(S, [r \in Refs |-> RefAfterDelete(r, node, j)])
         IN  [S |-> Recorded(S, [S1 EXCEPT !.tree = RemoveRange(S.tree, node, j)]), ok |-> TRUE]
    ELSE IF detachedOk THEN [S |-> S, ok |-> TRUE]
    ELSE [S |-> [S EXCEPT !.notice = "cannotDeleteNoParent"], ok |-> FALSE]

\* -------------------------------------------------------------- MindMapView
\* a handler that re-renders and leaves the file alone
HandleDataUpdated_NoWrite(S) == RefreshMindMapLayout(S)

HandleDataUpdated(S) == SaveToMarkdownFile(RefreshMindMapLayout(S))

\* onDataRestored of undo and redo
HandleDataRestored(S) == SaveToMarkdownFile(RefreshMindMapLayout(S))

\* MindMapView.onClose: the debounce timer is cleared and the renderer destroyed
OnClose(S) ==
    [ExitEditMode(S) EXCEPT !.updateTimer = FALSE, !.toolbarNode = NoRef,
                            !.aiNode = NoRef, !.mouseSelected = NoRef,
                            !.clickNode = NoRef, !.clickTimeout = NoRef, !.imSelected = NoRef,
                            !.imIsEditing = FALSE, !.scene = {}, !.closed = TRUE]

\* ------------------------------------------------------ RendererCoordinator
TriggerDataUpdate(S) == HandleDataUpdated(S)

ClearAllSelectionStates(t) == [i \in 1..Len(t) |-> [t[i] EXCEPT !.selected = FALSE]]

ClearSelection(S, typed) ==
    IF S.editingState.isEditing THEN SaveText(S, typed)
    ELSE [S EXCEPT !.tree = ClearAllSelectionStates(@),
                   !.selectedNode = NoRef,
                   !.coSynced = FALSE,
                   !.toolbarNode = NoRef]

HandleAddChildNode(S, node, typed) ==
    LET S1 == SaveSnapshot(S)
        r == CreateChildNode(S1, node, NewNodeText)
        S2 == ClearSelection(r.S, typed)
        S3 == [S2 EXCEPT !.tree = SetSelected(@, r.new, TRUE),
                         !.selectedNode = r.new,
                         !.coSynced = FALSE]
    IN  [TriggerDataUpdate(S3) EXCEPT !.editNewPending = TRUE]

HandleAddSiblingNode(S, node, typed) ==
    LET S1 == SaveSnapshot(S)
        r == CreateSiblingNode(S1, node, NewNodeText)
        S2 == ClearSelection(r.S, typed)
        S3 == [S2 EXCEPT !.tree = SetSelected(@, r.new, TRUE),
                         !.selectedNode = r.new,
                         !.coSynced = FALSE]
    IN  IF r.new = NoRef THEN S1
        ELSE [TriggerDataUpdate(S3) EXCEPT !.editNewPending = TRUE]

HandleDeleteNode(S, node, typed, detachedOk) ==
    LET S1 == SaveSnapshot(S)
        r == DeleteNode(S1, node, detachedOk)
    IN  IF r.ok THEN TriggerDataUpdate(ClearSelection(r.S, typed)) ELSE r.S

\* a call suspended in navigator.clipboard, resumed by a later event
ClipRequest(S, kind, node, via) ==
    [S EXCEPT !.pendingClip = Append(@, [kind |-> kind, node |-> node, via |-> via])]


EnterEditModeForNode(S, node, domOk) ==
    IF node \in S.scene THEN EnableEditing(S, node, domOk) ELSE S

ValidateSelectionState(S) ==
    LET sel == { i \in S.allNodes : IsLive(S.tree, i) /\ S.tree[i].selected }
        first == CHOOSE i \in sel : \A k \in sel : i <= k
    IN  IF Cardinality(sel) > 1
        THEN [S EXCEPT !.tree = [i \in 1..Len(@) |->
                  IF i \in sel /\ i # first THEN [@[i] EXCEPT !.selected = FALSE] ELSE @[i]]]
        ELSE S

SyncSelectedNodeReference(S) ==
    IF S.selectedNode = NoRef THEN S
    ELSE IF IsLive(S.tree, S.selectedNode) THEN [S EXCEPT !.coSynced = TRUE]
    ELSE [S EXCEPT !.selectedNode = NoRef, !.coSynced = FALSE]

\* render runs from its first statement to its last within one event: the
\* pass takes the lock, builds the scene, and in its finally block releases
\* the lock and schedules one more pass if a request was noted meanwhile
Render(S) ==
    IF S.isRendering THEN [S EXCEPT !.pendingRenderRequest = TRUE, !.renderPending = FALSE]
    ELSE LET S0 == [S EXCEPT !.isRendering = TRUE]
             S1 == ValidateSelectionState(S0)
             S2 == [S1 EXCEPT !.scene = 1..Len(S1.tree),
                              !.editingState = IF @.isEditing THEN [@ EXCEPT !.editElement = "detached"] ELSE @,
                              !.clickNode = NoRef,
                              !.renderPending = S1.pendingRenderRequest,
                              !.pendingRenderRequest = FALSE,
                              !.isRendering = FALSE]
             S3 == SyncSelectedNodeReference(S2)
         IN  [S3 EXCEPT !.toolbarNode = NoRef]

EditNewNode(S, domOk) ==
    IF S.selectedNode = NoRef \/ ~S.coSynced \/ S.selectedNode \notin S.scene THEN S
    ELSE EnableEditing(S, S.selectedNode, domOk)

RestoreData(S, data, id) ==
    RemapRefs([S EXCEPT !.tree = data, !.treeId = id], [r \in Refs |-> RefAfterRestore(r)])

Undone(S) == [S EXCEPT !.preOps = Front(@)]

Redone(S0, S1) == [S1 EXCEPT !.preOps = LastN(Append(@, Content(S0.tree)), MAX_STACK_SIZE)]

\* MindMapView assigns its handlers to the RendererManager, which forwards
\* onTextChanged and onDataUpdated to the coordinator and keeps onDataRestored
\* to itself: the coordinator's onDataRestored stays undefined
OnDataRestoredWired == FALSE

OnDataRestored(S) == IF OnDataRestoredWired THEN HandleDataRestored(S) ELSE S

Undo(S, typed) ==
    IF S.undoStack = << >> THEN S
    ELSE LET r == UndoManagerUndo(S)
         IN  Undone(TriggerDataUpdate(OnDataRestored(ClearSelection(RestoreData(r.S, r.data, r.id), typed))))

Redo(S, typed) ==
    IF S.redoStack = << >> THEN S
    ELSE LET r == UndoManagerRedo(S)
         IN  Redone(S, TriggerDataUpdate(OnDataRestored(ClearSelection(RestoreData(r.S, r.data, r.id), typed))))

\* MindMapView.renderer is the RendererManager built in the constructor, which wraps the
\* device renderer that wraps the coordinator
RendererIsCoordinator == FALSE

\* MindMapView.undo and MindMapView.redo, which the Undo and Redo commands call
ViewUndo(S, typed) == IF RendererIsCoordinator THEN Undo(S, typed) ELSE S

ViewRedo(S, typed) == IF RendererIsCoordinator THEN Redo(S, typed) ELSE S


\* -------------------------------------- MouseInteraction, InteractionManager
MouseClearSelection(S) ==
    IF S.mouseSelected # NoRef
    THEN [S EXCEPT !.tree = SetSelected(@, S.mouseSelected, FALSE), !.mouseSelected = NoRef]
    ELSE S

HandleNodeSelected(S, node) ==
    [S EXCEPT !.selectedNode = node,
              !.coSynced = TRUE,
              !.toolbarNode = IF S.isMobile /\ ~S.editingState.isEditing THEN node ELSE @]

HandleSelectionCleared(S) ==
    [S EXCEPT !.selectedNode = NoRef, !.coSynced = FALSE, !.toolbarNode = NoRef]

SelectNode(S, node) == HandleNodeSelected([S EXCEPT !.imSelected = node], node)

IMClearSelection(S) ==
    HandleSelectionCleared(MouseClearSelection([S EXCEPT !.imSelected = NoRef]))

\* a selection that leaves the node selected before as it is
PerformNodeSelection_KeepsPrevious(S, node) ==
    SelectNode([S EXCEPT !.tree = SetSelected(@, node, TRUE), !.mouseSelected = node], node)

\* InteractionManager.state.editingState.currentNode is never assigned, so
\* getEditingNode() is null and the same-node test never holds
PerformNodeSelection(S, node) ==
    LET editingNode == NoRef
        S1 == IF S.mouseSelected # NoRef /\ S.mouseSelected # node
              THEN [S EXCEPT !.tree = SetSelected(@, S.mouseSelected, FALSE)]
              ELSE S
        S2 == [S1 EXCEPT !.tree = SetSelected(@, node, TRUE), !.mouseSelected = node]
    IN  IF S.imIsEditing /\ editingNode = node THEN S
        ELSE SelectNode(S2, node)

HandleNodeDoubleClicked(S, node, domOk) ==
    IF node \in S.scene THEN EnableEditing(S, node, domOk) ELSE S

HandleNodeClick(S, node, domOk) ==
    IF S.clickNode = node
    THEN HandleNodeDoubleClicked([S EXCEPT !.clickNode = NoRef, !.clickTimeout = NoRef], node, domOk)
    ELSE PerformNodeSelection([S EXCEPT !.clickNode = node, !.clickTimeout = node], node)

HandleExitEditMode(S, typed) ==
    IF S.editingState.isEditing THEN SaveText(S, typed) ELSE S

HandleCanvasClick(S, typed) ==
    IF S.imIsEditing THEN HandleExitEditMode(S, typed) ELSE IMClearSelection(S)

\* capture-phase click listener of the canvas
CanvasClickListener(S, typed) == HandleCanvasClick(MouseClearSelection(S), typed)

\* ----------------------------------------------------------- ClipboardManager
PasteText_(S, node, typed) ==
    LET r == CreateChildNode(S, node, PasteText)
        S2 == ClearSelection(r.S, typed)
    IN  TriggerDataUpdate([S2 EXCEPT !.tree = SetSelected(@, r.new, TRUE)])

\* the fragment parsed from the clipboard, a node with frag - 1 descendants,
\* becomes the last child of node
PasteSubtree(S, node, frag, typed) ==
    LET r1 == AppendChild(S, node, PasteText)
        r2 == IF frag = 2 THEN AppendChild(r1.S, r1.new, PasteText) ELSE r1
        S2 == ClearSelection(Recorded(S, r2.S), typed)
    IN  TriggerDataUpdate([S2 EXCEPT !.tree = SetSelected(@, r1.new, TRUE)])

PasteToNode(S, node, result, frag, typed) ==
    IF result \in {"unavailable", "unreadable", "empty"} THEN S
    ELSE IF result = "markdown" THEN PasteSubtree(S, node, frag, typed)
    ELSE PasteText_(S, node, typed)

CutNode(S, node, copyOk, detachedOk, typed) ==
    IF ~copyOk THEN [S EXCEPT !.notice = "copyFailed"]
    ELSE LET r == DeleteNode([S EXCEPT !.notice = "nodeTextCopied"], node, detachedOk)
         IN  IF r.ok THEN TriggerDataUpdate(ClearSelection(r.S, typed)) ELSE r.S

\* pasteToNode up to its first await: without the Clipboard API it has returned
PasteToNodeCall(S, node, api, via) ==
    IF api THEN ClipRequest(S, "paste", node, via)
    ELSE PasteToNode(S, node, "unavailable", 0, "")

\* cutNode up to its first await: without the Clipboard API copyNode falls back
\* to execCommand and the whole cut runs at once
CutNodeCall(S, node, api, copyOk, detachedOk, typed) ==
    IF api THEN ClipRequest(S, "cut", node, "keyboard")
    ELSE CutNode(S, node, copyOk, detachedOk, typed)

\* ------------------------------- RendererCoordinator: clipboard entry points
HandleCutNode(S, node, api, copyOk, detachedOk, typed) ==
    CutNodeCall(SaveSnapshot(S), node, api, copyOk, detachedOk, typed)

HandlePasteToNode(S, node, api) == PasteToNodeCall(SaveSnapshot(S), node, api, "keyboard")

\* toolbarCallbacks.onPaste of the mobile toolbar
ToolbarOnPaste(S, node, api) == PasteToNodeCall(S, node, api, "toolbar")

\* --------------------------------------------------------------- AIAssistant
ShowSuggestionsPanel(S, node) == [S EXCEPT !.aiNode = node]

CreateChildFromSuggestion(S, parentNode, suggestion) ==
    IF suggestion \in S.selectedSuggestions THEN [S EXCEPT !.notice = "alreadyAdded"]
    ELSE LET r == CreateChildNode(S, parentNode, suggestion)
         IN  [TriggerDataUpdate(r.S) EXCEPT !.selectedSuggestions = @ \cup {suggestion},
                                            !.notice = "nodeCreated"]


\* ==================================================================== events
OpR(kind, via, target, result) == [kind |-> kind, via |-> via, target |-> target, result |-> result]

Op(kind, via, target) == OpR(kind, via, target, "none")

\* what the edit element holds when the session is saved
Typed(S) == IF S.editingState.isEditing THEN {S.editText} ELSE {""}

DetachedOutcomes(node) == IF node = Dead THEN BOOLEAN ELSE {TRUE}

HasRoom(node, n) == IsLive(tree, node) => Len(tree) + n <= MaxNodes

\* leaving the edit element with the pointer arms the blur-save timer
BlurEditElement(S) ==
    IF S.editingState.isEditing /\ S.editingState.editElement = "attached"
    THEN [S EXCEPT !.blurPending = S.editingState.currentNode]
    ELSE S

BlurUnless(S, node) ==
    IF IsEditedNode(S, node) THEN S ELSE BlurEditElement(S)

\* a user event; a run is followed for at most budget of them
Command == ~closed /\ nOps < budget /\ nOps' = nOps + 1 /\ budget' = budget

\* a timer, an animation frame or the continuation of an awaited call
NoCommand == ~closed /\ nOps' = nOps /\ budget' = budget

\* KeyboardManager dispatches a shortcut only while no edit session is active
KeyboardEnabled == ~imIsEditing

\* the view after construction and the first render of the parsed tree t
ConstructedOn(t) ==
    /\ tree = t
    /\ allNodes = 1..Len(t)
    /\ isMobile \in BOOLEAN
    /\ treeId = 0
    /\ undoStack = << >>
    /\ redoStack = << >>
    /\ undoIds = << >>
    /\ redoIds = << >>
    /\ mouseSelected = NoRef
    /\ imSelected = NoRef
    /\ selectedNode = NoRef
    /\ coSynced = FALSE
    /\ editingState = NoEdit
    /\ editText = ""
    /\ canvasInteractionEnabled = TRUE
    /\ imIsEditing = FALSE
    /\ clickNode = NoRef
    /\ clickTimeout = NoRef
    /\ toolbarNode = NoRef
    /\ aiNode = NoRef
    /\ selectedSuggestions = {}
    /\ scene = 1..Len(t)
    /\ renderPending = FALSE
    /\ isRendering = FALSE
    /\ pendingRenderRequest = FALSE
    /\ updateTimer = FALSE
    /\ file = Content(t)
    /\ closed = FALSE
    /\ editNewPending = FALSE
    /\ blurPending = NoRef
    /\ pendingClip = << >>
    /\ notice = "none"
    /\ lastOp = Op("init", "none", NoRef)
    /\ nOps = 0
    /\ preOps = << >>
    /\ hist = NoHist

Constructed == ConstructedOn(InitTree)

NoLayout == hierarchy = << >> /\ dims = << >> /\ placed = << >>

NoLinks == links = << >> /\ linkSnapshot = << >>

NoDocument == doc = << >> /\ parses = << >> /\ markdowns = << >> /\ NoLinks /\ NoLayout

Init == Constructed /\ budget = MaxOps /\ NoDocument

\* ---- pointer
NodeClick ==
    \E node \in scene, domOk \in BOOLEAN :
        /\ Command
        /\ Commit(HandleNodeClick(BlurUnless(Cur, node), node, domOk),
                  Op(IF clickNode = node THEN "doubleClick" ELSE "click", "pointer", node))

CanvasClick ==
    \E typed \in Typed(Cur) :
        /\ Command
        /\ Commit(CanvasClickListener(Cur, typed), Op("canvasClick", "pointer", NoRef))

ClickWindowExpires ==
    /\ clickTimeout # NoRef
    /\ NoCommand
    /\ Commit([Cur EXCEPT !.clickNode = NoRef, !.clickTimeout = NoRef], Op("clickTimeout", "timer", NoRef))

\* ---- edit surface
\* the edit element has the keyboard focus
EditFocused ==
    /\ editingState.isEditing
    /\ editingState.editElement = "attached"
    /\ blurPending # editingState.currentNode

EditEnter ==
    /\ EditFocused /\ ~isMobile
    /\ \E typed \in Typed(Cur) :
        /\ Command
        /\ Commit(SaveText(Cur, typed), Op("saveText", "enter", editingState.currentNode))

\* the user replaces the content of the focused edit element
TypeText ==
    /\ EditFocused
    /\ NoCommand
    /\ \E typed \in TypedTexts \ {editText} :
        Commit([Cur EXCEPT !.editText = typed], Op("type", "keyboard", editingState.currentNode))

EditEscape ==
    /\ EditFocused
    /\ Command
    /\ Commit(CancelEdit(Cur), Op("cancelEdit", "escape", editingState.currentNode))

BlurTimer ==
    /\ blurPending # NoRef
    /\ \E typed \in Typed(Cur) :
        /\ NoCommand
        /\ Commit(IF editingState.isEditing /\ editingState.currentNode = blurPending
                  THEN SaveText([Cur EXCEPT !.blurPending = NoRef], typed)
                  ELSE [Cur EXCEPT !.blurPending = NoRef],
                  Op("saveText", "blur", blurPending))

EditNewNodeTimer ==
    /\ editNewPending
    /\ NoCommand
    /\ \E domOk \in BOOLEAN :
        Commit(EditNewNode([Cur EXCEPT !.editNewPending = FALSE], domOk),
               Op("editNewNode", "timer", selectedNode))

UpdateTimer ==
    /\ updateTimer
    /\ NoCommand
    /\ Commit(UpdateTimerCallback(Cur), Op("write", "timer", NoRef))

\* the view is closed
Close ==
    /\ NoCommand
    /\ Commit(OnClose(Cur), Op("close", "view", NoRef))

RenderFrame ==
    /\ renderPending
    /\ NoCommand
    /\ Commit(Render(Cur), Op("render", "frame", NoRef))

\* ---- keyboard shortcuts (desktop), dispatched on the interaction manager's
\* selected node while no edit session is active
KeyTab ==
    /\ KeyboardEnabled /\ imSelected # NoRef /\ HasRoom(imSelected, 1)
    /\ Command
    /\ Commit(HandleAddChildNode(Cur, imSelected, ""), Op("addChild", "keyboard", imSelected))

KeyEnter ==
    /\ KeyboardEnabled /\ imSelected # NoRef /\ (IsRootRef(imSelected) \/ HasRoom(imSelected, 1))
    /\ Command
    /\ Commit(HandleAddSiblingNode(Cur, imSelected, ""), Op("addSibling", "keyboard", imSelected))

KeyDelete ==
    /\ KeyboardEnabled /\ imSelected # NoRef
    /\ Command
    /\ \E ok \in DetachedOutcomes(imSelected) :
        Commit(HandleDeleteNode(Cur, imSelected, "", ok), Op("delete", "keyboard", imSelected))

KeyCut ==
    /\ KeyboardEnabled /\ imSelected # NoRef
    /\ Command
    /\ \/ /\ Len(pendingClip) < MaxPending
          /\ Commit(HandleCutNode(Cur, imSelected, TRUE, TRUE, TRUE, ""),
                    Op("cutRequest", "keyboard", imSelected))
       \/ \E copyOk \in BOOLEAN, ok \in DetachedOutcomes(imSelected) :
             Commit(HandleCutNode(Cur, imSelected, FALSE, copyOk, ok, ""),
                    OpR("cut", "keyboard", imSelected, IF copyOk THEN "copied" ELSE "copyFailed"))

KeyPaste ==
    /\ KeyboardEnabled /\ imSelected # NoRef
    /\ Command
    /\ \/ /\ Len(pendingClip) < MaxPending
          /\ Commit(HandlePasteToNode(Cur, imSelected, TRUE), Op("pasteRequest", "keyboard", imSelected))
       \/ Commit(HandlePasteToNode(Cur, imSelected, FALSE), OpR("paste", "keyboard", imSelected, "unavailable"))

KeyUndo ==
    /\ KeyboardEnabled
    /\ Command
    /\ Commit(Undo(Cur, ""), Op("undo", "keyboard", NoRef))

KeyRedo ==
    /\ KeyboardEnabled
    /\ Command
    /\ Commit(Redo(Cur, ""), Op("redo", "keyboard", NoRef))

\* ---- commands of the plugin, run from the command palette while the view
\* is the active one
UndoCommand ==
    /\ Command
    /\ Commit(ViewUndo(Cur, ""), Op("undo", "command", NoRef))

RedoCommand ==
    /\ Command
    /\ Commit(ViewRedo(Cur, ""), Op("redo", "command", NoRef))

\* ---- buttons drawn next to a selected node of the scene.  A click on a
\* button or on the toolbar is a click on the svg outside the node elements:
\* the capture-phase canvas listener runs before the button's own handler
PlusButton ==
    \E node \in scene :
        /\ tree[node].selected /\ Len(tree) < MaxNodes
        /\ Command
        /\ \E typed \in Typed(Cur) :
            Commit(HandleAddChildNode(CanvasClickListener(Cur, typed), node, ""),
                   Op("addChild", "plusButton", node))

AIButton ==
    \E node \in scene :
        /\ tree[node].selected /\ aiNode # node
        /\ Command
        /\ \E typed \in Typed(Cur) :
            Commit(ShowSuggestionsPanel(CanvasClickListener(Cur, typed), node),
                   Op("aiPanel", "aiButton", node))

\* a click on an item of the suggestions panel, which is outside the svg
AcceptSuggestion ==
    /\ aiNode # NoRef /\ HasRoom(aiNode, 1)
    /\ Command
    /\ \E suggestion \in Suggestions \ selectedSuggestions :
        Commit(CreateChildFromSuggestion(BlurEditElement(Cur), aiNode, suggestion),
               Op("addChild", "aiSuggestion", aiNode))

\* ---- mobile toolbar
ToolbarEdit ==
    /\ isMobile /\ toolbarNode \in scene
    /\ Command
    /\ \E typed \in Typed(Cur), domOk \in BOOLEAN :
        Commit(EnterEditModeForNode(CanvasClickListener(Cur, typed), toolbarNode, domOk),
               Op("edit", "toolbar", toolbarNode))

ToolbarPaste ==
    /\ isMobile /\ toolbarNode # NoRef
    /\ Command
    /\ \E typed \in Typed(Cur) :
        \/ /\ Len(pendingClip) < MaxPending
           /\ Commit(ToolbarOnPaste(CanvasClickListener(Cur, typed), toolbarNode, TRUE),
                     Op("pasteRequest", "toolbar", toolbarNode))
        \/ Commit(ToolbarOnPaste(CanvasClickListener(Cur, typed), toolbarNode, FALSE),
                  OpR("paste", "toolbar", toolbarNode, "unavailable"))

ToolbarDelete ==
    /\ isMobile /\ toolbarNode # NoRef
    /\ Command
    /\ \E typed \in Typed(Cur), ok \in DetachedOutcomes(toolbarNode) :
        Commit(HandleDeleteNode(CanvasClickListener(Cur, typed), toolbarNode, "", ok),
               Op("delete", "toolbar", toolbarNode))

\* ---- clipboard continuations
ClipWithout(S, k) ==
    [S EXCEPT !.pendingClip = SubSeq(@, 1, k - 1) \o SubSeq(@, k + 1, Len(@))]

ClipboardResults == {"unreadable", "empty", "text", "markdown"}

FragmentSize(result) == IF result = "markdown" THEN 2 ELSE 1

ClipboardCutDone ==
    \E k \in 1..Len(pendingClip) :
        /\ pendingClip[k].kind = "cut"
        /\ NoCommand
        /\ \E copyOk \in BOOLEAN, typed \in Typed(Cur), ok \in DetachedOutcomes(pendingClip[k].node) :
            Commit(CutNode(ClipWithout(Cur, k), pendingClip[k].node, copyOk, ok, typed),
                   OpR("cut", pendingClip[k].via, pendingClip[k].node,
                       IF copyOk THEN "copied" ELSE "copyFailed"))

ClipboardPasteDone ==
    \E k \in 1..Len(pendingClip) :
        /\ pendingClip[k].kind = "paste"
        /\ NoCommand
        /\ \E result \in ClipboardResults, typed \in Typed(Cur) :
            /\ result \in {"text", "markdown"} => HasRoom(pendingClip[k].node, FragmentSize(result))
            /\ Commit(PasteToNode(ClipWithout(Cur, k), pendingClip[k].node, result, FragmentSize(result), typed),
                      OpR("paste", pendingClip[k].via, pendingClip[k].node, result))

Next ==
    \/ NodeClick
    \/ CanvasClick
    \/ ClickWindowExpires
    \/ EditEnter
    \/ TypeText
    \/ EditEscape
    \/ BlurTimer
    \/ EditNewNodeTimer
    \/ UpdateTimer
    \/ Close
    \/ RenderFrame
    \/ KeyTab
    \/ KeyEnter
    \/ KeyDelete
    \/ KeyCut
    \/ KeyPaste
    \/ KeyUndo
    \/ KeyRedo
    \/ PlusButton
    \/ AIButton
    \/ AcceptSuggestion
    \/ ToolbarEdit
    \/ ToolbarPaste
    \/ ToolbarDelete
    \/ ClipboardCutDone
    \/ ClipboardPasteDone

Spec == Init /\ [][Next]_vars

\* Longer runs of the desktop view driven by pointer, keyboard and suggestion
\* panel, in which the undo and redo stacks fill up
InitHistory == Constructed /\ ~isMobile /\ budget = MaxHistoryOps /\ NoDocument

NextHistory ==
    \/ NodeClick
    \/ RenderFrame
    \/ EditNewNodeTimer
    \/ TypeText
    \/ EditEscape
    \/ KeyTab
    \/ KeyEnter
    \/ KeyDelete
    \/ KeyUndo
    \/ KeyRedo
    \/ AIButton
    \/ AcceptSuggestion

SpecHistory == InitHistory /\ [][NextHistory]_vars

\* ---- the desktop view driven by clicks, node creation, the undo and redo
\* shortcuts and the Undo and Redo commands
MaxCommands == 5

InitCommands == Constructed /\ ~isMobile /\ budget = MaxCommands /\ NoDocument

NextCommands ==
    \/ NodeClick
    \/ RenderFrame
    \/ EditNewNodeTimer
    \/ KeyTab
    \/ KeyUndo
    \/ KeyRedo
    \/ UndoCommand
    \/ RedoCommand

SpecCommands == InitCommands /\ [][NextCommands]_vars

\* ---- the desktop view driven by the shortcuts that save a snapshot and by
\* the undo and redo shortcuts, long enough to fill the undo stack and redo
MaxStackOps == 8

InitStacks == Constructed /\ ~isMobile /\ budget = MaxStackOps /\ NoDocument

NextStacks ==
    \/ NodeClick
    \/ RenderFrame
    \/ EditNewNodeTimer
    \/ KeyTab
    \/ KeyEnter
    \/ KeyDelete
    \/ KeyUndo
    \/ KeyRedo

SpecStacks == InitStacks /\ [][NextStacks]_vars

\* ---- runs of clicks alone, with the timers that clicks arm
MaxClicks == 5

\* a document with a child and a grandchild
ClickTree == << Node(0, RootText, FALSE), Node(1, InitText, FALSE), Node(2, "c", FALSE) >>

InitClicks == ConstructedOn(ClickTree) /\ budget = MaxClicks /\ NoDocument

NextClicks ==
    \/ NodeClick
    \/ CanvasClick
    \/ ClickWindowExpires
    \/ BlurTimer

SpecClicks == InitClicks /\ [][NextClicks]_vars

\* ============================================================ mindmap-utils
\* A line of a document is its leading whitespace (indent, in spaces), its
\* list marker ("" when it has none) and what follows, trimmed.
MaxLines == 3

Line(indent, marker, rest) == [indent |-> indent, marker |-> marker, rest |-> rest]

BlankLine == Line(0, "", "")

\* texts of list items: plain, an attribute alone, an attribute whose key
\* holds another attribute, a text followed by an attribute
AttrText == "[k:v]"
NestedAttrText == "a[k[k:v]:v]"
TextWithAttr == "a[k:v]"
ItemTexts == {"a", AttrText, NestedAttrText}

Lines ==
    { Line(i, m, t) : i \in {0, 4, 8}, m \in {"*", "1."}, t \in ItemTexts }
        \cup { Line(i, "", "c") : i \in {2, 6} }
        \cup { BlankLine }

Documents == UNION { [1..n -> Lines] : n \in 1..MaxLines }

\* one pass of replace(/\[key:value\]/g, '') followed by trim
CleanTextContent(text) ==
    IF text = AttrText THEN ""
    ELSE IF text = NestedAttrText THEN TextWithAttr
    ELSE IF text = TextWithAttr THEN "a"
    ELSE text

IsBlank(line) == line.marker = "" /\ line.rest = ""

\* a marker, whitespace and then a character that is not whitespace
IsListItem(line) == line.marker # "" /\ line.rest # ""

ParseListItem(line) ==
    [level |-> line.indent \div 4, content |-> CleanTextContent(line.rest), indent |-> line.indent]

\* line.trim() of a line that is not a list item
LineContent(line) == IF line.marker # "" THEN line.marker ELSE line.rest

\* content.replace(/^#mindmap\s*\n?/, ''): the whitespace after the identifier
\* goes, blank lines and the indentation of the first line with text included
StripIdentifier(lines) ==
    LET full == { k \in 1..Len(lines) : ~IsBlank(lines[k]) }
        k0 == CHOOSE k \in full : \A j \in full : k <= j
    IN  IF full = {} THEN << >>
        ELSE << [lines[k0] EXCEPT !.indent = 0] >> \o SubSeq(lines, k0 + 1, Len(lines))

\* a parsed node: level, text as its lines, parent and children as positions
\* in allNodes
ParsedNode(level, text, parent) ==
    [level |-> level, text |-> text, parent |-> parent, children |-> << >>]

ParseStart ==
    [allNodes |-> << ParsedNode(0, << RootText >>, 0) >>, nodeStack |-> << 1 >>,
     lastNode |-> 0, lastIndentLength |-> 0]

\* the body of the loop of parseMarkdownContent
ParseLine(st, line) ==
    IF IsBlank(line) THEN st
    ELSE IF IsListItem(line)
    THEN LET parsed == ParseListItem(line)
             stack == IF Len(st.nodeStack) > parsed.level + 1
                      THEN SubSeq(st.nodeStack, 1, parsed.level + 1) ELSE st.nodeStack
             parentNode == stack[Len(stack)]
             new == Len(st.allNodes) + 1
             newNode == ParsedNode(parsed.level + 1, << parsed.content >>, parentNode)
         IN  [allNodes |-> Append([st.allNodes EXCEPT ![parentNode].children = Append(@, new)], newNode),
              nodeStack |-> Append(stack, new),
              lastNode |-> new,
              lastIndentLength |-> parsed.indent]
    ELSE IF st.lastNode # 0 /\ line.indent > st.lastIndentLength
    THEN [st EXCEPT !.allNodes[st.lastNode].text = Append(@, LineContent(line))]
    ELSE st

RECURSIVE ParseLines(_, _)
ParseLines(st, lines) ==
    IF lines = << >> THEN st ELSE ParseLines(ParseLine(st, Head(lines)), Tail(lines))

\* parseMarkdownContent of the identifier line followed by lines
ParseMarkdownContent(lines) == ParseLines(ParseStart, StripIdentifier(lines)).allNodes

\* node.children, in order
ChildrenOf(nodes, i) == nodes[i].children

\* a line of a node text that reads as a list item once it is written
MarkerLine == "* a"

\* the continuation line `${continuationIndent}${lines[i]}` as the parser reads it
ContinuationLine(indent, text) ==
    IF text = MarkerLine THEN Line(indent, "*", "a") ELSE Line(indent, "", text)

NodeLines(node, indentLevel) ==
    LET indent == 4 * (indentLevel - 1)
    IN  [k \in 1..Len(node.text) |->
            IF k = 1 THEN Line(indent, "*", node.text[1]) ELSE ContinuationLine(indent + 2, node.text[k])]

RECURSIVE GenerateNodeMarkdown(_, _, _)
RECURSIVE GenerateChildren(_, _, _)
GenerateNodeMarkdown(nodes, i, indentLevel) ==
    IF nodes[i].level = 0 THEN << >>
    ELSE NodeLines(nodes[i], indentLevel) \o GenerateChildren(nodes, ChildrenOf(nodes, i), indentLevel + 1)

GenerateChildren(nodes, cs, indentLevel) ==
    IF cs = << >> THEN << >>
    ELSE GenerateNodeMarkdown(nodes, Head(cs), indentLevel) \o GenerateChildren(nodes, Tail(cs), indentLevel)

RECURSIVE GenerateRootChildren(_, _)
GenerateRootChildren(nodes, cs) ==
    IF cs = << >> THEN << >>
    ELSE GenerateNodeMarkdown(nodes, Head(cs), nodes[Head(cs)].level) \o GenerateRootChildren(nodes, Tail(cs))

\* generateMarkdownFromNodes: the lines that follow the identifier line
GenerateMarkdownFromNodes(nodes) ==
    << BlankLine >> \o GenerateRootChildren(nodes, ChildrenOf(nodes, 1))

\* ---- the document functions applied in turn: parse, generate, parse, generate
InitParse ==
    Constructed /\ ~isMobile /\ budget = 0 /\ doc \in Documents /\ parses = << >> /\ markdowns = << >> /\ NoLinks /\ NoLayout

ParseDocument ==
    /\ Len(parses) = Len(markdowns) /\ Len(parses) < 2
    /\ parses' = Append(parses, ParseMarkdownContent(IF parses = << >> THEN doc ELSE markdowns[Len(markdowns)]))
    /\ UNCHANGED << viewVars, doc, markdowns, links, linkSnapshot, layoutVars >>

GenerateMarkdown ==
    /\ Len(parses) = Len(markdowns) + 1
    /\ markdowns' = Append(markdowns, GenerateMarkdownFromNodes(parses[Len(parses)]))
    /\ UNCHANGED << viewVars, doc, parses, links, linkSnapshot, layoutVars >>

NextParse == ParseDocument \/ GenerateMarkdown

SpecParse == InitParse /\ [][NextParse]_vars

\* ---- the tree of a loaded document is edited, written and loaded again
MaxEditNodes == 3

\* documents of items with plain texts, each at most one level deeper than
\* the item before it
LoadedDocuments ==
    { d \in Documents :
        /\ \A k \in 1..Len(d) : d[k].marker = "*" /\ d[k].rest = "a"
        /\ d[1].indent = 0
        /\ \A k \in 2..Len(d) : d[k].indent <= d[k - 1].indent + 4 }

\* texts of the edit element and of the clipboard, as their lines
EditedTexts ==
    { << "b" >>, << " " >>, << LongText >>, << ForbiddenText >>, << TextWithAttr >>,
      << "b", "c" >>, << "b", MarkerLine >> }

\* NodeEditor.validateText of the lines joined by newlines
ValidateLines(text) ==
    /\ \E k \in 1..Len(text) : Trim(text[k]) # ""
    /\ \A k \in 1..Len(text) : text[k] # LongText /\ text[k] # ForbiddenText

\* text.substring(0, MAX_TEXT_LENGTH), the only change pasteText makes
Truncated(text) == [k \in 1..Len(text) |-> IF text[k] = LongText THEN "b" ELSE text[k]]

\* MindMapService.createChildNode on the parsed nodes
AddChildNode(nodes, parent, text) ==
    Append([nodes EXCEPT ![parent].children = Append(@, Len(nodes) + 1)],
           ParsedNode(nodes[parent].level + 1, text, parent))

Editable == Len(parses) = 1 /\ markdowns = << >>

\* NodeEditor.saveText: a text that passes validateText becomes the node text
CommitNodeText ==
    /\ Editable
    /\ \E i \in 2..Len(parses[1]), text \in EditedTexts :
          /\ ValidateLines(text)
          /\ parses' = << [parses[1] EXCEPT ![i].text = text] >>
    /\ UNCHANGED << viewVars, doc, markdowns, links, linkSnapshot, layoutVars >>

\* ClipboardManager.pasteText: a clipboard text that is not a list becomes a child
PastePlainText ==
    /\ Editable /\ Len(parses[1]) < MaxEditNodes
    /\ \E i \in 1..Len(parses[1]), text \in EditedTexts \ { << " " >> } :
          /\ text[1] # MarkerLine
          /\ parses' = << AddChildNode(parses[1], i, Truncated(text)) >>
    /\ UNCHANGED << viewVars, doc, markdowns, links, linkSnapshot, layoutVars >>

\* AIAssistant.createChildFromSuggestion: an accepted suggestion becomes a child
CreateSuggestedChild ==
    /\ Editable /\ Len(parses[1]) < MaxEditNodes
    /\ \E i \in 1..Len(parses[1]), s \in Suggestions : parses' = << AddChildNode(parses[1], i, << s >>) >>
    /\ UNCHANGED << viewVars, doc, markdowns, links, linkSnapshot, layoutVars >>

\* the view writes generateMarkdownFromNodes of its tree to the file
WriteDocument ==
    /\ Editable
    /\ markdowns' = << GenerateMarkdownFromNodes(parses[1]) >>
    /\ UNCHANGED << viewVars, doc, parses, links, linkSnapshot, layoutVars >>

\* the written file is loaded again
ReloadDocument ==
    /\ Len(parses) = 1 /\ Len(markdowns) = 1
    /\ parses' = Append(parses, ParseMarkdownContent(markdowns[1]))
    /\ UNCHANGED << viewVars, doc, markdowns, links, linkSnapshot, layoutVars >>

InitReload ==
    /\ Constructed /\ ~isMobile /\ budget = 0
    /\ doc \in LoadedDocuments /\ parses = << ParseMarkdownContent(doc) >> /\ markdowns = << >>
    /\ NoLinks /\ NoLayout

NextReload == CommitNodeText \/ PastePlainText \/ CreateSuggestedChild \/ WriteDocument \/ ReloadDocument

SpecReload == InitReload /\ [][NextReload]_vars


\* ================================================ parent and children fields
\* The tree as node objects that hold a parent field and a children array.  A
\* node object is a position of links; positions are never reused, so a node
\* cut out of the tree stays where it is, out of reach from the root.
MaxLinks == 4

LinkDocuments ==
    LET lines == { Line(i, "*", "a") : i \in {0, 4} }
    IN  UNION { [1..n -> lines] : n \in 1..2 }

\* the nodes of the tree that hangs below node i through the children arrays
RECURSIVE TreeNodes(_, _)
TreeNodes(heap, i) ==
    {i} \cup UNION { TreeNodes(heap, heap[i].children[k]) : k \in DOMAIN heap[i].children }

Count(seq, x) == Cardinality({ k \in DOMAIN seq : seq[k] = x })

\* MindMapService.createChildNode
CreateChildLinked(heap, node, text) ==
    Append([heap EXCEPT ![node].children = Append(@, Len(heap) + 1)],
           [level |-> heap[node].level + 1, text |-> << text >>, parent |-> node, children |-> << >>])

\* MindMapService.createSiblingNode: the new node follows node in parent.children
CreateSiblingLinked(heap, node, text) ==
    LET parentNode == heap[node].parent
        cs == heap[parentNode].children
        k == CHOOSE j \in DOMAIN cs : cs[j] = node
    IN  Append([heap EXCEPT ![parentNode].children =
                    SubSeq(cs, 1, k) \o << Len(heap) + 1 >> \o SubSeq(cs, k + 1, Len(cs))],
               [level |-> heap[node].level, text |-> << text >>, parent |-> parentNode, children |-> << >>])

\* MindMapService.deleteNode: node leaves parent.children
DeleteNodeLinked(heap, node) ==
    [heap EXCEPT ![heap[node].parent].children = SelectSeq(@, LAMBDA c : c # node)]

\* MindMapService.createSubtreeFromMarkdown: a fragment of frag nodes, linked
\* among themselves, whose root has no parent yet
CreateSubtreeFromMarkdown(heap, frag, parentLevel) ==
    LET r == Len(heap) + 1
        root == [level |-> parentLevel + 1, text |-> << PasteText >>, parent |-> 0,
                 children |-> IF frag = 2 THEN << r + 1 >> ELSE << >>]
        child == [level |-> parentLevel + 2, text |-> << PasteText >>, parent |-> r, children |-> << >>]
    IN  IF frag = 2 THEN heap \o << root, child >> ELSE Append(heap, root)

\* ClipboardManager.pasteSubtree: the fragment becomes the last child of node
PasteSubtreeLinked(heap, node, frag) ==
    LET subtreeRoot == Len(heap) + 1
    IN  [CreateSubtreeFromMarkdown(heap, frag, heap[node].level) EXCEPT
            ![subtreeRoot].parent = node,
            ![node].children = Append(@, subtreeRoot)]

\* UndoManager.deepCloneNode: the clone of node i and of the nodes below it,
\* appended to into; every clone has parent null
RECURSIVE DeepCloneLinked(_, _, _)
RECURSIVE DeepCloneChildren(_, _, _, _)
DeepCloneLinked(heap, i, into) ==
    DeepCloneChildren(heap, heap[i].children,
                      Append(into, [heap[i] EXCEPT !.parent = 0, !.children = << >>]),
                      Len(into) + 1)

DeepCloneChildren(heap, cs, into, clone) ==
    IF cs = << >> THEN into
    ELSE LET child == Len(into) + 1
             cloned == DeepCloneLinked(heap, Head(cs), into)
         IN  DeepCloneChildren(heap, Tail(cs), [cloned EXCEPT ![clone].children = Append(@, child)], clone)

\* a rebuild that leaves the parent fields as the clone set them
RebuildParentReferences_Skipped(heap, i) == heap

RECURSIVE RebuildParentReferences(_, _)
RECURSIVE RebuildChildren(_, _, _)
RebuildParentReferences(heap, i) == RebuildChildren(heap, heap[i].children, i)

RebuildChildren(heap, cs, i) ==
    IF cs = << >> THEN heap
    ELSE RebuildChildren(RebuildParentReferences([heap EXCEPT ![Head(cs)].parent = i], Head(cs)),
                         Tail(cs), i)

\* the rootNode of the snapshot that saveSnapshot, undo and redo build
SnapshotOf(heap) == RebuildParentReferences(DeepCloneLinked(heap, 1, << >>), 1)

InitLinks ==
    /\ Constructed /\ ~isMobile /\ budget = 0
    /\ doc \in LinkDocuments /\ parses = << >> /\ markdowns = << >>
    /\ links = ParseMarkdownContent(doc)
    /\ linkSnapshot = << >>
    /\ NoLayout

LinkStep(heap, shot) ==
    /\ links' = heap
    /\ linkSnapshot' = shot
    /\ UNCHANGED << viewVars, doc, parses, markdowns, layoutVars >>

AddChildLinked ==
    \E node \in TreeNodes(links, 1) :
        /\ Len(links) < MaxLinks
        /\ LinkStep(CreateChildLinked(links, node, NewNodeText), linkSnapshot)

AddSiblingLinked ==
    \E node \in TreeNodes(links, 1) \ {1} :
        /\ Len(links) < MaxLinks
        /\ LinkStep(CreateSiblingLinked(links, node, NewNodeText), linkSnapshot)

DeleteLinked ==
    \E node \in TreeNodes(links, 1) \ {1} :
        LinkStep(DeleteNodeLinked(links, node), linkSnapshot)

PasteLinked ==
    \E node \in TreeNodes(links, 1), frag \in {1, 2} :
        /\ Len(links) + frag <= MaxLinks
        /\ LinkStep(PasteSubtreeLinked(links, node, frag), linkSnapshot)

\* saveSnapshot
SnapshotLinked == LinkStep(links, SnapshotOf(links))

\* undo or redo: the snapshot becomes the tree, a snapshot of the tree given
\* up takes its place on the other stack
RestoreLinked ==
    /\ linkSnapshot # << >>
    /\ LinkStep(linkSnapshot, SnapshotOf(links))

NextLinks ==
    \/ AddChildLinked
    \/ AddSiblingLinked
    \/ DeleteLinked
    \/ PasteLinked
    \/ SnapshotLinked
    \/ RestoreLinked

SpecLinks == InitLinks /\ [][NextLinks]_vars


\* ========================================================= LayoutCalculator
\* Vertical positions are kept doubled (x2 = 2 * x), so that the halves of
\* the integer heights the text measurer returns stay integers.
MaxLayoutNodes == 4

VerticalGap == 10
StartX == 100
StartY == 100
RootSpacing == 80
DeepSpacing == 30

Max(a, b) == IF a >= b THEN a ELSE b

\* d3.hierarchy of a tree of n nodes in which parent[i] is the parent of node i
HierarchyOf(parent) ==
    [i \in DOMAIN parent |->
        [parent |-> parent[i],
         children |-> SelectSeq([j \in DOMAIN parent |-> j], LAMBDA j : parent[j] = i)]]

Hierarchies ==
    UNION { { HierarchyOf(parent) :
                parent \in { f \in [1..n -> 0..n] : f[1] = 0 /\ \A i \in 2..n : f[i] \in 1..(i - 1) } } :
            n \in 1..MaxLayoutNodes }

BoxSizes == [width : {40, 60}, height : {20, 50}]

RECURSIVE Depth(_, _)
Depth(h, i) == IF h[i].parent = 0 THEN 0 ELSE Depth(h, h[i].parent) + 1

RECURSIVE SumSeq(_)
SumSeq(q) == IF q = << >> THEN 0 ELSE Head(q) + SumSeq(Tail(q))

\* the heights of the children's subtrees and the gaps between them
TotalChildrenHeight(heights) == SumSeq(heights) + (Len(heights) - 1) * VerticalGap

\* a subtree height that leaves out the node's own box
RECURSIVE SubtreeHeight_ChildrenOnly(_, _, _)
SubtreeHeight_ChildrenOnly(h, box, i) ==
    IF h[i].children = << >> THEN box[i].height
    ELSE TotalChildrenHeight([k \in DOMAIN h[i].children |-> SubtreeHeight_ChildrenOnly(h, box, h[i].children[k])])

\* calculateAllSubtreeDimensions: subtreeHeight of node i
RECURSIVE SubtreeHeight(_, _, _)
SubtreeHeight(h, box, i) ==
    IF h[i].children = << >> THEN box[i].height
    ELSE Max(box[i].height,
             TotalChildrenHeight([k \in DOMAIN h[i].children |-> SubtreeHeight(h, box, h[i].children[k])]))

RECURSIVE SubtreeWidth(_, _, _)
SubtreeWidth(h, box, i) ==
    IF h[i].children = << >> THEN box[i].width
    ELSE LET ws == { SubtreeWidth(h, box, h[i].children[k]) : k \in DOMAIN h[i].children }
         IN  Max(box[i].width, CHOOSE w \in ws : \A v \in ws : w >= v)

HorizontalSpacing(depth) == IF depth = 0 THEN RootSpacing ELSE DeepSpacing

\* a start at the parent's own position
FirstChildTop2_AtParent(parentX2, totalChildrenHeight) == parentX2

\* currentY before the first child, doubled: parentNode.x - totalChildrenHeight / 2
FirstChildTop2(parentX2, totalChildrenHeight) == parentX2 - totalChildrenHeight

\* a step that does not move on
NextChildTop2_Stays(currentY2, subtreeHeight) == currentY2

\* currentY after a child, doubled: currentY + subtreeHeight + verticalGap
NextChildTop2(currentY2, subtreeHeight) == currentY2 + 2 * (subtreeHeight + VerticalGap)

\* a child put at the parent's left edge plus the spacing
ChildY_IgnoresWidth(parentY, parentWidth, parentDepth) == parentY + HorizontalSpacing(parentDepth)

\* childY: the parent's right edge plus the spacing of its depth
ChildY(parentY, parentWidth, parentDepth) == parentY + parentWidth + HorizontalSpacing(parentDepth)

\* setNodePositionsTopDown and distributeChildrenVerticalSpace; pos holds the
\* positions assigned so far
RECURSIVE SetNodePositionsTopDown(_, _, _, _, _, _)
RECURSIVE DistributeChildren(_, _, _, _, _, _)
SetNodePositionsTopDown(h, box, i, x2, y, pos) ==
    LET here == [pos EXCEPT ![i] = [x2 |-> x2, y |-> y]]
        heights == [k \in DOMAIN h[i].children |-> SubtreeHeight(h, box, h[i].children[k])]
    IN  IF h[i].children = << >> THEN here
        ELSE DistributeChildren(h, box, i, h[i].children,
                                FirstChildTop2(x2, TotalChildrenHeight(heights)), here)

DistributeChildren(h, box, parentNode, cs, currentY2, pos) ==
    IF cs = << >> THEN pos
    ELSE LET child == Head(cs)
             height == SubtreeHeight(h, box, child)
             childX2 == currentY2 + height
             childY == ChildY(pos[parentNode].y, box[parentNode].width, Depth(h, parentNode))
         IN  DistributeChildren(h, box, parentNode, Tail(cs), NextChildTop2(currentY2, height),
                                SetNodePositionsTopDown(h, box, child, childX2, childY, pos))

CreateRecursiveTreeLayout(h, box) ==
    SetNodePositionsTopDown(h, box, 1, 2 * StartX, StartY, [i \in DOMAIN h |-> [x2 |-> 0, y |-> 0]])

InitLayout ==
    /\ Constructed /\ ~isMobile /\ budget = 0
    /\ doc = << >> /\ parses = << >> /\ markdowns = << >> /\ NoLinks
    /\ hierarchy \in Hierarchies
    /\ dims \in [DOMAIN hierarchy -> BoxSizes]
    /\ placed = << >>

LayoutPass ==
    /\ placed = << >>
    /\ placed' = CreateRecursiveTreeLayout(hierarchy, dims)
    /\ UNCHANGED << viewVars, doc, parses, markdowns, links, linkSnapshot, hierarchy, dims >>

NextLayout == LayoutPass

SpecLayout == InitLayout /\ [][NextLayout]_vars


Top(stack) == stack[Len(stack)]

Selection == << SelectedSet(tree), mouseSelected, imSelected, selectedNode >>

\* C1: in every reachable state at most one node of the tree has selected = true
C1_SingleSelection == Cardinality(SelectedSet(tree)) <= 1

\* C2: every operation that changes the tree, from whichever entry point, has
\* pushed a snapshot of the tree as it was before the operation, so that the
\* top of the undo stack right after it is the tree it started from
C2_SnapshotBeforeMutation ==
    [][(Content(tree') # Content(tree) /\ lastOp'.kind \notin {"undo", "redo"})
          => (undoStack' # << >> /\ Content(Top(undoStack')) = Content(tree))]_vars

\* C3: a child created from an accepted suggestion has its snapshot pushed and
\* the redo stack cleared, as AddChild does
C3_SuggestionSnapshots ==
    [][(lastOp'.via = "aiSuggestion" /\ Content(tree') # Content(tree))
          => (/\ undoStack' # << >>
              /\ Content(Top(undoStack')) = Content(tree)
              /\ redoStack' = << >>)]_vars

\* C4: AddSibling on the root creates nothing and pushes nothing: tree, undo
\* stack and redo stack are as before
C4_SiblingOfRootChangesNothing ==
    [][(lastOp'.kind = "addSibling" /\ IsRootRef(lastOp'.target))
          => (tree' = tree /\ undoStack' = undoStack /\ redoStack' = redoStack)]_vars

\* C5: a Delete refused for the root or a parentless node leaves tree,
\* selection, undo stack and redo stack as before
C5_RefusedDeleteChangesNothing ==
    [][(lastOp'.kind = "delete" /\ notice' \in {"cannotDeleteRoot", "cannotDeleteNoParent"})
          => (/\ tree' = tree
              /\ Selection' = Selection
              /\ undoStack' = undoStack
              /\ redoStack' = redoStack)]_vars

\* C6: a Paste that finds the clipboard unavailable, unreadable or empty is a
\* silent no-op: tree, selection, undo stack and redo stack are as before and
\* nothing is notified
C6_EmptyPasteChangesNothing ==
    [][(lastOp'.kind = "paste" /\ lastOp'.result \in {"unavailable", "unreadable", "empty"})
          => (/\ tree' = tree
              /\ Selection' = Selection
              /\ undoStack' = undoStack
              /\ redoStack' = redoStack
              /\ notice' = "none")]_vars

\* C7: a Cut changes the undo and redo stacks only when it removes the subtree;
\* when the copy fails or the node is the root, tree and stacks are as before
C7_CutSnapshotsOnlyOnRemoval ==
    [][(lastOp'.kind = "cut" /\ (undoStack' # undoStack \/ redoStack' # redoStack \/ tree' # tree))
          => (/\ lastOp'.result = "copied"
              /\ ~IsRootRef(lastOp'.target)
              /\ Len(tree') < Len(tree))]_vars

\* C8: a redo that answers the k-th last undo of a run of consecutive undos
\* and redos brings back the content the tree had before that undo; the redo
\* that answers the first undo brings back the tree the run started from
C8_UndoRedoRoundTrip ==
    [][(lastOp'.kind = "redo" /\ redoStack # << >> /\ hist.trail # << >>)
          => Content(tree') = Top(hist.trail)]_vars

\* two undos answered by two redos, across two different earlier trees
C8_Witness ==
    /\ lastOp.kind = "redo"
    /\ hist.trail = << >>
    /\ hist.depth >= 2
    /\ Len(undoStack) >= 2
    /\ Content(undoStack[1]) # Content(undoStack[2])
    /\ Content(Top(undoStack)) # Content(tree)

\* C9: the undo stack never holds more than MAX_STACK_SIZE snapshots, an undo
\* restores the state that preceded the most recent operation not yet undone,
\* and when no such operation is left an undo reaches no earlier state
C9_UndoRestoresPrecedingStates ==
    [][/\ Len(undoStack') <= MAX_STACK_SIZE
       /\ lastOp'.kind = "undo" =>
            IF preOps # << >>
            THEN Content(tree') = Top(preOps)
            ELSE Content(tree') = Content(tree)]_vars

\* C10: after an operation that changed the structure of the tree the redo
\* stack is empty
C10_MutationClearsRedo ==
    [][(Structure(tree') # Structure(tree) /\ lastOp'.kind \notin {"undo", "redo"})
          => redoStack' = << >>]_vars

\* the snapshots on the two stacks: the identity of their node objects and
\* what these objects hold
Snapshots ==
    { << undoIds[k], undoStack[k] >> : k \in DOMAIN undoStack }
        \cup { << redoIds[k], redoStack[k] >> : k \in DOMAIN redoStack }

C12_EditedNodeIsSelected ==
    editingState.isEditing => SelectedSet(tree) = {editingState.currentNode}

\* an event ends the session on one node and starts a session on another
SwitchesEditTarget ==
    /\ editingState.isEditing
    /\ editingState'.isEditing
    /\ editingState'.currentNode # editingState.currentNode
    /\ IsLive(tree, editingState.currentNode)
    /\ Structure(tree') = Structure(tree)

\* C13: when editing moves from node n to another node, the text the edit
\* element of n holds, if it is valid, is the text of n afterwards
C13_SwitchCommitsPriorTarget ==
    [][(SwitchesEditTarget /\ ValidateText(Trim(editText)))
          => tree'[editingState.currentNode].text = Trim(editText)]_vars

\* an event asks for the commit of a session whose edit element holds a text
\* that fails validation
InvalidCommit ==
    /\ editingState.isEditing
    /\ ~ValidateText(Trim(editText))
    /\ \/ lastOp'.kind = "saveText" /\ lastOp'.via = "enter"
       \/ lastOp'.kind = "saveText" /\ lastOp'.via = "blur" /\ blurPending = editingState.currentNode
       \/ lastOp'.kind = "canvasClick" /\ imIsEditing

\* C14: the commit of an empty, too long or forbidden text, by Enter, blur or
\* a click on the empty canvas, keeps the text of the tree, takes no snapshot,
\* writes nothing, notifies, and ends the session with the node still selected
C14_InvalidCommitReverts ==
    [][InvalidCommit =>
          /\ Content(tree') = Content(tree)
          /\ undoStack' = undoStack /\ redoStack' = redoStack
          /\ file' = file /\ updateTimer' = updateTimer
          /\ notice' = "validationError"
          /\ ~editingState'.isEditing
          /\ SelectedSet(tree') = {editingState.currentNode}]_vars

\* C15: Escape ends the session with the node holding the text it had when
\* the session started, whatever the edit element holds, with no snapshot
\* and no write, and with the node still selected
C15_CancelReverts ==
    [][(lastOp'.kind = "cancelEdit" /\ IsLive(tree, editingState.currentNode)) =>
          /\ Content(tree') = Content(tree)
          /\ tree'[editingState.currentNode].text = editingState.originalText
          /\ undoStack' = undoStack /\ redoStack' = redoStack
          /\ file' = file /\ updateTimer' = updateTimer
          /\ ~editingState'.isEditing
          /\ tree'[editingState.currentNode].selected]_vars

\* the tree has one node at level 0, its first, with the text it was given
RootIntact ==
    /\ Len(tree) >= 1
    /\ tree[1].level = 0
    /\ tree[1].text = RootText
    /\ \A i \in 2..Len(tree) : tree[i].level >= 1

\* C16: a delete or an add-sibling aimed at the root leaves the whole tree as
\* it was, no edit session ever runs on the root, and every tree reached has
\* exactly one node at level 0, the root with its text
C16_RootImmutable ==
    [][/\ RootIntact'
       /\ editingState'.isEditing => ~IsRootRef(editingState'.currentNode)
       /\ (/\ lastOp'.kind \in {"delete", "addSibling", "cut"}
           /\ IsRootRef(lastOp'.target)
           /\ ~editingState.isEditing) => Content(tree') = Content(tree)]_vars

\* a delete aimed at the root of a tree that has grown was refused
C16_Witness ==
    /\ lastOp.kind = "delete"
    /\ lastOp.target = 1
    /\ notice = "cannotDeleteRoot"
    /\ Len(tree) > Len(InitTree)

\* C17: a double-click on the root starts no session: the editing state (a
\* session running on another node included), the canvas interaction flag
\* and the selection stay as they are, and the root-edit notice is shown
C17_RootDoubleClickIgnored ==
    [][(lastOp'.kind = "doubleClick" /\ IsRootRef(lastOp'.target)) =>
          /\ editingState' = editingState
          /\ editText' = editText
          /\ canvasInteractionEnabled' = canvasInteractionEnabled
          /\ imIsEditing' = imIsEditing
          /\ Selection' = Selection
          /\ notice' = "cannotEditRoot"]_vars

\* the root was double-clicked while a session on another node was running
C17_Witness ==
    /\ lastOp.kind = "doubleClick"
    /\ lastOp.target = 1
    /\ editingState.isEditing
    /\ tree[1].selected

\* the filter of the zoom behaviour lets pan and zoom gestures through
ZoomFilter == canvasInteractionEnabled

\* the drag handlers of the canvas act on the gesture
DragEnabled == ~imIsEditing

\* C18: pan and zoom are rejected in every state in which a session is
\* active and accepted in every state in which none is
C18_CanvasSuppressedWhileEditing ==
    /\ ZoomFilter <=> ~editingState.isEditing
    /\ DragEnabled <=> ~editingState.isEditing

\* a session was ended by a failed validation and the canvas reacts again
C18_Witness ==
    /\ notice = "validationError"
    /\ lastOp.kind = "saveText"
    /\ ~editingState.isEditing
    /\ ZoomFilter /\ DragEnabled

\* C19 (the part that the code exercises): between events no render pass is
\* in flight, the in-flight flag is clear and no request is waiting for a
\* trailing pass
C19_NoPassInFlightBetweenEvents == ~isRendering /\ ~pendingRenderRequest

\* an event on which a pending write has to be flushed: an explicit commit,
\* a click that selects another node, the closing of the view
FlushEvent ==
    \/ lastOp'.kind = "saveText" /\ lastOp'.via \in {"enter", "blur"}
    \/ lastOp'.kind = "click" /\ lastOp'.target # selectedNode
    \/ lastOp'.kind = "close"

\* C20: after an explicit commit, a selection change and the closing of the
\* view no write is left pending: the debounce timer is not armed and the
\* file holds the document of the tree
C20_DebounceFlushed ==
    [][FlushEvent => (~updateTimer' /\ file' = Content(tree'))]_vars

\* the view was closed while the file still lacked a committed text
C20_LostWrite == closed => file = Content(tree)

\* an event commits a text and leaves the structure of the tree alone
TextCommitted ==
    /\ Content(tree') # Content(tree)
    /\ Structure(tree') = Structure(tree)
    /\ lastOp'.kind \notin {"undo", "redo"}

\* an undo or a redo that restores a snapshot
Restores ==
    \/ lastOp'.kind = "undo" /\ undoStack # << >>
    \/ lastOp'.kind = "redo" /\ redoStack # << >>

ItemLines(d) == SelectSeq(d, IsListItem)

\* a document in the text format: every line is blank, a list item at an
\* indentation of 0, 4, 8, ... spaces, or a line of text indented deeper than
\* the list item before it; the first item is not indented and no item is
\* more than one level deeper than the item before it
WellFormed(d) ==
    /\ \A k \in 1..Len(d) :
          \/ IsBlank(d[k])
          \/ IsListItem(d[k]) /\ d[k].indent % 4 = 0
          \/ /\ d[k].marker = "" /\ d[k].rest # ""
             /\ \E j \in 1..(k - 1) :
                   /\ IsListItem(d[j])
                   /\ \A i \in (j + 1)..(k - 1) : ~IsListItem(d[i])
                   /\ d[k].indent > d[j].indent
    /\ ItemLines(d) # << >>
    /\ ItemLines(d)[1].indent = 0
    /\ \A k \in 2..Len(ItemLines(d)) : ItemLines(d)[k].indent <= ItemLines(d)[k - 1].indent + 4

\* C22: for a well-formed document, the tree parsed from the markdown
\* generated from the parsed document has the texts, levels and child order
\* of the parsed document, and generating markdown from it gives the same
\* markdown again
C22_RoundTripStable ==
    WellFormed(doc) =>
        /\ Len(parses) >= 2 => parses[2] = parses[1]
        /\ Len(markdowns) >= 2 => markdowns[2] = markdowns[1]

\* C22 for documents whose item texts hold no attribute
C22_PlainRoundTripStable ==
    (WellFormed(doc) /\ \A k \in 1..Len(doc) : doc[k].rest \in {"", "a", "c"}) =>
        /\ Len(parses) >= 2 => parses[2] = parses[1]
        /\ Len(markdowns) >= 2 => markdowns[2] = markdowns[1]

\* C23: in every tree produced by parsing, the level of each node other than
\* the root is the level of its parent plus 1
C23_ChildLevelIsParentLevelPlusOne ==
    \A k \in 1..Len(parses) : \A i \in 2..Len(parses[k]) :
        parses[k][i].level = parses[k][parses[k][i].parent].level + 1

\* C23 for the tree of the view, whose nodes come in pre-order: under
\* structural operations and undo/redo restores no node lies more than one
\* level below the node before it, and only the first node has level 0
C23_ViewTreeLevels ==
    /\ tree[1].level = 0
    /\ \A i \in 2..Len(tree) : tree[i].level >= 1 /\ tree[i].level <= tree[i - 1].level + 1

\* every node of the tree below the root has a parent that is a node of the
\* tree and whose children array holds the node once
ParentsAndChildrenAgree(heap) ==
    \A i \in TreeNodes(heap, 1) \ {1} :
        /\ heap[i].parent \in TreeNodes(heap, 1)
        /\ Count(heap[heap[i].parent].children, i) = 1

\* C24: in the parsed tree, after structural edits, after a paste, in every
\* snapshot and after every restore, each node other than the root has a
\* parent in the same tree whose children hold it exactly once
C24_ParentHoldsChildOnce ==
    /\ ParentsAndChildrenAgree(links)
    /\ linkSnapshot # << >> => ParentsAndChildrenAgree(linkSnapshot)

\* a snapshot was taken of a tree that holds a pasted node two levels below
\* the root, and the tree was given a new node since
C24_Witness ==
    /\ linkSnapshot # << >>
    /\ \E i \in TreeNodes(linkSnapshot, 1) :
          linkSnapshot[i].text = << PasteText >> /\ linkSnapshot[i].level >= 2
    /\ \E j \in TreeNodes(links, 1) : links[j].text = << NewNodeText >>

\* the layout pass has run
Placed == placed # << >>

\* the vertical span of the subtree of node i, doubled
SpanTop2(i) == placed[i].x2 - SubtreeHeight(hierarchy, dims, i)

SpanBottom2(i) == placed[i].x2 + SubtreeHeight(hierarchy, dims, i)

\* C25: after a layout pass the vertical spans of the subtrees of two
\* different children of one parent do not overlap
C25_SiblingSpansDisjoint ==
    Placed =>
        \A a, b \in DOMAIN hierarchy :
            (a # b /\ hierarchy[a].parent = hierarchy[b].parent /\ hierarchy[a].parent # 0)
                => (SpanBottom2(a) < SpanTop2(b) \/ SpanBottom2(b) < SpanTop2(a))

\* two siblings were placed of which one has a child that makes its subtree
\* higher than its box
C25_Witness ==
    /\ Placed
    /\ \E a, b \in DOMAIN hierarchy :
          /\ a # b /\ hierarchy[a].parent = hierarchy[b].parent /\ hierarchy[a].parent # 0
          /\ hierarchy[a].children # << >>
          /\ SubtreeHeight(hierarchy, dims, a) > dims[a].height

\* C26: after a layout pass every child lies at the y of its parent plus the
\* width of the parent's box plus the spacing of the parent's depth, so all
\* children of one parent share their y; the spacing below the root is the
\* larger one
C26_ChildrenLeftAligned ==
    /\ RootSpacing > DeepSpacing
    /\ Placed =>
          \A c \in DOMAIN hierarchy :
              hierarchy[c].parent # 0 =>
                  LET parentNode == hierarchy[c].parent
                  IN  /\ placed[c].y = placed[parentNode].y + dims[parentNode].width
                                         + (IF parentNode = 1 THEN RootSpacing ELSE DeepSpacing)
                      /\ \A d \in DOMAIN hierarchy :
                            hierarchy[d].parent = parentNode => placed[d].y = placed[c].y

\* two children of the root and a grandchild were placed, the parents' boxes
\* of different widths
C26_Witness ==
    /\ Placed
    /\ Len(hierarchy[1].children) = 2
    /\ \E c \in DOMAIN hierarchy :
          /\ hierarchy[c].parent \notin {0, 1}
          /\ dims[hierarchy[c].parent].width # dims[1].width

\* C27: after a layout pass the top of the first child's span and the bottom
\* of the last child's span lie at the same distance above and below the x of
\* the parent, and an only child has the x of its parent
C27_ChildrenCentredOnParent ==
    Placed =>
        \A parentNode \in DOMAIN hierarchy :
            LET cs == hierarchy[parentNode].children
            IN  cs # << >> =>
                  /\ SpanTop2(cs[1]) + SpanBottom2(cs[Len(cs)]) = 2 * placed[parentNode].x2
                  /\ Len(cs) = 1 => placed[cs[1]].x2 = placed[parentNode].x2

\* a parent with an only child lower than itself, below a parent with two
\* children of different heights, was placed
C27_Witness ==
    /\ Placed
    /\ \E parentNode \in DOMAIN hierarchy :
          /\ Len(hierarchy[parentNode].children) = 1
          /\ dims[hierarchy[parentNode].children[1]].height < dims[parentNode].height
    /\ \E parentNode \in DOMAIN hierarchy :
          /\ Len(hierarchy[parentNode].children) = 2
          /\ SubtreeHeight(hierarchy, dims, hierarchy[parentNode].children[1])
                # SubtreeHeight(hierarchy, dims, hierarchy[parentNode].children[2])

\* C28: after every click on a node, double-click and click on the empty
\* canvas, and after every timer these arm, at most one node is selected,
\* and after a click on the empty canvas outside an edit session none is
C28_ClicksKeepSingleSelection ==
    [][/\ Cardinality(SelectedSet(tree')) <= 1
       /\ (lastOp'.kind = "canvasClick" /\ ~editingState.isEditing) => SelectedSet(tree') = {}]_vars

\* after four clicks on nodes and on the canvas, a fifth click has left the
\* root as the one selected node, with no session running
C28_Witness ==
    /\ lastOp.kind = "click"
    /\ nOps >= 5
    /\ SelectedSet(tree) = {1}
    /\ mouseSelected = 1
    /\ ~editingState.isEditing

\* the event is a click on a node
IsNodeClick(op) == op.kind \in {"click", "doubleClick"}

\* C29: a click on a node registers as a double-click exactly when the click
\* before it hit the same node, was not itself the second click of a
\* double-click, and its 300 ms timeout has not run yet; a double-click
\* leaves no click to pair with, and any other click selects its node at once
\* and is the click the next one pairs with
C29_DoubleClickIffSameNodeInWindow ==
    [][IsNodeClick(lastOp') =>
          /\ lastOp'.kind = "doubleClick" <=> clickTimeout = lastOp'.target
          /\ lastOp'.kind = "doubleClick" => clickTimeout' = NoRef /\ clickNode' = NoRef
          /\ lastOp'.kind = "click" =>
                /\ clickTimeout' = lastOp'.target
                /\ tree'[lastOp'.target].selected
                /\ mouseSelected' = lastOp'.target]_vars

\* C29, between two render passes: a click on the node of the pending
\* timeout is a double-click as long as no render pass ran since that click
C29_DoubleClickWithoutRender ==
    [][(IsNodeClick(lastOp') /\ clickTimeout = lastOp'.target /\ clickNode = clickTimeout)
          => lastOp'.kind = "doubleClick"]_vars

\* C30: after every render pass at most one node of the tree is selected
C30_RenderLeavesOneSelected ==
    [][lastOp'.kind = "render" => Cardinality(SelectedSet(tree')) <= 1]_vars

\* C30, for the nodes that MindMapData.allNodes holds: after every render
\* pass at most one of them is selected, the first of those selected before
C30_RenderHealsAllNodes ==
    [][(lastOp'.kind = "render" /\ ~isRendering) =>
          LET before == { i \in allNodes : IsLive(tree, i) /\ tree[i].selected }
              after == { i \in allNodes' : IsLive(tree', i) /\ tree'[i].selected }
          IN  /\ Cardinality(after) <= 1
              /\ before # {} => after = { CHOOSE i \in before : \A k \in before : i <= k }]_vars

\* the node that handleAddChildNode or handleAddSiblingNode created is still
\* the selected node of the coordinator and its enter-edit callback is pending
NewNodeSelected ==
    /\ editNewPending
    /\ IsLive(tree, selectedNode)
    /\ tree[selectedNode].selected
    /\ tree[selectedNode].text = NewNodeText

\* C31: when the enter-edit callback of AddChild or AddSibling runs while the
\* new node is still the selected node, and preparing the edit element raises
\* no error, an edit session on the new node starts, whether or not the
\* re-render has run before it
C31_NewNodeEntersEdit ==
    [][(lastOp'.kind = "editNewNode" /\ NewNodeSelected /\ notice' # "validationError") =>
          /\ editingState'.isEditing
          /\ editingState'.currentNode = selectedNode]_vars

\* C31, the selection: AddChild on a node of the tree, and AddSibling on a
\* node of the tree other than the root, leave the new node selected
C31_NewNodeSelected ==
    [][(/\ lastOp'.kind \in {"addChild", "addSibling"}
        /\ lastOp'.via # "aiSuggestion"
        /\ IsLive(tree, lastOp'.target)
        /\ lastOp'.kind = "addSibling" => ~IsRootRef(lastOp'.target))
          => /\ IsLive(tree', selectedNode')
             /\ tree'[selectedNode'].selected
             /\ tree'[selectedNode'].text = NewNodeText
             /\ editNewPending']_vars

\* C31, the order in which the session does start: the render pass ran before
\* the enter-edit callback
C31_EntersEditAfterRender ==
    [][(/\ lastOp'.kind = "editNewNode" /\ notice' # "validationError"
        /\ NewNodeSelected /\ coSynced /\ selectedNode \in scene) =>
          /\ editingState'.isEditing
          /\ editingState'.currentNode = selectedNode]_vars

\* C32: the Undo command run while the undo stack is not empty makes the tree
\* the content of the most recent snapshot, and the Redo command run while the
\* redo stack is not empty makes the tree the content of the top of the redo
\* stack
C32_CommandsRestore ==
    [][/\ (lastOp' = Op("undo", "command", NoRef) /\ undoStack # << >>)
            => Content(tree') = Content(Top(undoStack))
       /\ (lastOp' = Op("redo", "command", NoRef) /\ redoStack # << >>)
            => Content(tree') = Content(Top(redoStack))]_vars

\* C32, for the keyboard shortcuts, which call the coordinator itself
C32_ShortcutsRestore ==
    [][/\ (lastOp' = Op("undo", "keyboard", NoRef) /\ undoStack # << >>)
            => Content(tree') = Content(Top(undoStack))
       /\ (lastOp' = Op("redo", "keyboard", NoRef) /\ redoStack # << >>)
            => Content(tree') = Content(Top(redoStack))]_vars

\* the event is the clipboard answering a Cut or Paste requested by shortcut
\* earlier, and it changed the tree
ClipboardApplied ==
    /\ lastOp'.kind \in {"cut", "paste"}
    /\ lastOp'.via = "keyboard"
    /\ nOps' = nOps
    /\ Content(tree') # Content(tree)

\* C33: when the clipboard answers a Cut or Paste requested by shortcut and the
\* tree changes, the top of the undo stack is the tree as it was immediately
\* before that change, so that the next undo reverts this one operation
C33_ClipboardUndoRevertsOne ==
    [][ClipboardApplied => (undoStack' # << >> /\ Content(Top(undoStack')) = Content(tree))]_vars

\* C33, with nothing in between: when no operation has changed the tree since
\* the request and no edit session is open, the top of the undo stack is the
\* tree before the change
C33_ClipboardUndoUndisturbed ==
    [][(/\ ClipboardApplied /\ ~editingState.isEditing
        /\ undoStack # << >> /\ Content(Top(undoStack)) = Content(tree))
          => (undoStack' # << >> /\ Content(Top(undoStack')) = Content(tree))]_vars

\* C34: whenever an edit session is active, the element it edits is part of
\* the rendered scene
C34_EditSurfaceInScene ==
    editingState.isEditing => editingState.editElement = "attached"

\* C34, the sessions a render pass leaves alone: while no session is open
\* when a pass runs, the element of an active session is part of the scene
C34_SessionsStartInScene ==
    [][(lastOp'.kind # "render" /\ editingState'.isEditing /\ editingState'.editElement # "attached")
          => (editingState.isEditing /\ editingState.editElement # "attached")]_vars

\* C35: after an undo or redo that restored a snapshot, the nodes that
\* allNodes holds are exactly the nodes of the restored tree
C35_RestoredAllNodesIsTree ==
    [][(Restores /\ lastOp'.via = "keyboard") => allNodes' = 1..Len(tree')]_vars

\* a selection reference is null or denotes the one selected node of the tree
AgreesWithFlags(ref) == ref = NoRef \/ SelectedSet(tree) = {ref}

\* C36: in every state between events the selection references of the pointer
\* handler, of the interaction manager and of the coordinator are each null
\* or the one node of the tree whose selected flag is true
C36_ReferencesAgreeWithFlags ==
    ~closed => (AgreesWithFlags(mouseSelected) /\ AgreesWithFlags(imSelected) /\ AgreesWithFlags(selectedNode))

\* ---- C37
\* a node of a parsed tree with its descendants: level, text and the children in order
RECURSIVE Subtree(_, _)
RECURSIVE Subtrees(_, _)
Subtree(nodes, i) == << nodes[i].level, nodes[i].text, Subtrees(nodes, nodes[i].children) >>

Subtrees(nodes, cs) ==
    IF cs = << >> THEN << >> ELSE << Subtree(nodes, Head(cs)) >> \o Subtrees(nodes, Tail(cs))

Reloaded == Len(parses) = 2

\* some node of the edited tree holds a text with an attribute or a line that reads as a list item
EditedRewritable ==
    \E i \in 1..Len(parses[1]) : \E k \in 1..Len(parses[1][i].text) :
        parses[1][i].text[k] \in {TextWithAttr, MarkerLine}

\* C37: a tree reached by validated text commits, plain-text pastes and accepted
\* suggestions, once written and loaded again, has the same texts, levels and
\* child order
C37_ReloadYieldsSameTree ==
    Reloaded => Subtree(parses[2], 1) = Subtree(parses[1], 1)

\* C37 for trees whose texts hold neither an attribute nor a line that reads as
\* a list item, multi-line texts included: the reloaded tree is the edited tree
C37_PlainReloadYieldsSameTree ==
    (Reloaded /\ ~EditedRewritable) => Subtree(parses[2], 1) = Subtree(parses[1], 1)

C37_MultiLineReloaded ==
    /\ Reloaded
    /\ \E i \in 1..Len(parses[1]) : parses[1][i].text = << "b", "c" >>

\* ---- C39
\* C39: the undo stack and the redo stack together never hold more than
\* MAX_STACK_SIZE snapshots, so a redo, which pushes onto the undo stack
\* without looking at its length, never makes it longer than MAX_STACK_SIZE
C39_StacksWithinCapacity ==
    /\ Len(undoStack) + Len(redoStack) <= MAX_STACK_SIZE
    /\ Len(undoStack) <= MAX_STACK_SIZE

\* a redo has filled the undo stack
C39_RedoFillsUndoStack ==
    /\ lastOp.kind = "redo" /\ hist.trail = << >> /\ hist.depth >= 1
    /\ Len(undoStack) = MAX_STACK_SIZE

\* ---- C40
\* the box of node i: x is its vertical centre (doubled here), y its left edge
BoxTop2(i) == placed[i].x2 - dims[i].height

BoxBottom2(i) == placed[i].x2 + dims[i].height

BoxLeft(i) == placed[i].y

BoxRight(i) == placed[i].y + dims[i].width

RECURSIVE IsAncestor(_, _)
IsAncestor(a, b) ==
    hierarchy[b].parent # 0 /\ (hierarchy[b].parent = a \/ IsAncestor(a, hierarchy[b].parent))

====
